---- MODULE Spec2Model ----
(***************************************************************************)
(* Model of galene's packetcache (src/packetcache/packetcache.go): a ring  *)
(* of recently stored RTP packets keyed by a 16-bit sequence number, a     *)
(* 32-bit arrival bitmap and the reception statistics, all behind one      *)
(* mutex.                                                                  *)
(***************************************************************************)
EXTENDS Integers, Sequences, FiniteSets, TLC

\* ------------------------------------------------------------ constants

BufSize == 1500
\* uint16 arithmetic is arithmetic modulo 2^16
SeqMod == 65536
\* the mask 0x8000 of seqnoInvalid, set and Store
TopBit == 32768
\* the reordering window 0x100 of seqnoInvalid
Reorder == 256
\* ^uint16(0), the largest capacity New accepts
MaxUint16 == 65535
\* the width of the arrival bitmap (uint32)
BitmapWidth == 32
\* the number of bits BitmapGet shifts out
DrainWidth == 17

\* ------------------------------------------------------------ bounds

\* capacities given to New and Resize are 1..MaxCap
MaxCap == 3
\* the number of Store calls of a run of SpecRing
MaxRingStores == 3
\* the number of Store calls of a run of SpecStats
MaxStatsStores == 4
\* Expect is called while expected is at most this
MaxExpected == 4
\* SpecBitmap stores while expected is at most this
MaxSpan == 17
\* SpecBitmap skips sequence numbers while lost stays at most this
MaxLost == 4
\* the number of BitmapGet calls of a run
MaxDrains == 2
\* history keeps the last MaxHistory packets stored
MaxHistory == 6
\* SpecResize gives New, Resize and ResizeCond the capacities 1..MaxResizeCap
MaxResizeCap == 6
\* the number of Store calls of a run of SpecResize
MaxResizeStores == 6
\* the number of Store calls into a fresh cache of a run of SpecNew
MaxNewStores == 3
\* the number of Store calls of a run of SpecWindow
MaxWindowStores == 3
\* the number of BitmapGet calls of a run of SpecWindow
MaxWindowDrains == 2
\* the number of Store calls of a run of SpecLoss
MaxLossStores == 3
\* SpecLoss calls Expect while expected is at most this
MaxLossExpected == 2
\* SpecConc calls Expect while expected is at most this
MaxConcExpected == 1
\* the number of BitmapGet calls of a run of SpecConc
MaxConcDrains == 1

Min(a, b) == IF a < b THEN a ELSE b
Max(a, b) == IF a < b THEN b ELSE a

\* ------------------------------------------------------------ integers

\* uint16 subtraction and addition, wrapping
Sub16(a, b) == (a - b + SeqMod) % SeqMod
Add16(a, b) == (a + b) % SeqMod

\* A uint32 is kept as two 16-bit limbs, the value being hi * 2^16 + lo.
U32(n) == [hi |-> (n \div SeqMod) % SeqMod, lo |-> n % SeqMod]
Add32(a, b) ==
    LET lo == a.lo + b.lo
    IN  [hi |-> (a.hi + b.hi + (lo \div SeqMod)) % SeqMod, lo |-> lo % SeqMod]
\* a - 1, for a # 0
Dec32(a) ==
    IF a.lo > 0 THEN [hi |-> a.hi, lo |-> a.lo - 1]
    ELSE [hi |-> (a.hi + SeqMod - 1) % SeqMod, lo |-> SeqMod - 1]
Leq32(a, b) == a.hi < b.hi \/ (a.hi = b.hi /\ a.lo <= b.lo)

\* ------------------------------------------------------------ the cache

\* The zero value of an entry.  buf holds the bytes written so far; the
\* bytes of the array beyond Len(buf) are zero.
EmptyEntry == [seqno |-> 0, length |-> 0, buf |-> <<>>]

\* entries[i] of the source is entries[i + 1] here
At(entries, i) == entries[i + 1]

\* the nil *Cache
Nil == [nil |-> TRUE]

\* a New that turns the largest capacity down
NewBelow65535(capacity) ==
    IF capacity >= MaxUint16 THEN Nil ELSE
    [last |-> 0, cycle |-> 0, lastValid |-> FALSE,
     expected |-> U32(0), lost |-> U32(0), totalLost |-> U32(0),
     first |-> 0, bitmap |-> {},
     tail |-> 0,
     entries |-> [i \in 1..capacity |-> EmptyEntry]]

New(capacity) ==
    IF capacity > MaxUint16 THEN Nil ELSE
    [last |-> 0, cycle |-> 0, lastValid |-> FALSE,
     expected |-> U32(0), lost |-> U32(0), totalLost |-> U32(0),
     first |-> 0, bitmap |-> {},
     tail |-> 0,
     entries |-> [i \in 1..capacity |-> EmptyEntry]]

seqnoInvalid(seqno, reference) ==
    IF Sub16(seqno, reference) < TopBit THEN FALSE
    ELSE Sub16(reference, seqno) > Reorder

\* The bitmap is the set of the positions of its 1 bits.
ShiftRight(bitmap, n) == {b - n : b \in {x \in bitmap : x >= n}}

\* a set that resets the window only on a sequence number far behind first
setKeepsEmpty(c, seqno) ==
    IF seqnoInvalid(seqno, c.first)
    THEN [c EXCEPT !.first = seqno, !.bitmap = {0}]
    ELSE IF Sub16(seqno, c.first) >= TopBit
    THEN c
    ELSE IF Sub16(seqno, c.first) < BitmapWidth
    THEN [c EXCEPT !.bitmap = @ \cup {Sub16(seqno, c.first)}]
    ELSE LET shift == Sub16(Sub16(seqno, c.first), BitmapWidth - 1)
             nfirst == Add16(c.first, shift)
         IN  [c EXCEPT !.first = nfirst,
                       !.bitmap = ShiftRight(@, shift)
                                    \cup {Sub16(seqno, nfirst)}]

\* a set that slides the window all the way to the sequence number
setSlidesToBitZero(c, seqno) ==
    IF c.bitmap = {} \/ seqnoInvalid(seqno, c.first)
    THEN [c EXCEPT !.first = seqno, !.bitmap = {0}]
    ELSE IF Sub16(seqno, c.first) >= TopBit
    THEN c
    ELSE IF Sub16(seqno, c.first) < BitmapWidth
    THEN [c EXCEPT !.bitmap = @ \cup {Sub16(seqno, c.first)}]
    ELSE LET shift == Sub16(seqno, c.first)
             nfirst == Add16(c.first, shift)
         IN  [c EXCEPT !.first = nfirst,
                       !.bitmap = ShiftRight(@, shift)
                                    \cup {Sub16(seqno, nfirst)}]

set(c, seqno) ==
    IF c.bitmap = {} \/ seqnoInvalid(seqno, c.first)
    THEN [c EXCEPT !.first = seqno, !.bitmap = {0}]
    ELSE IF Sub16(seqno, c.first) >= TopBit
    THEN c
    ELSE IF Sub16(seqno, c.first) < BitmapWidth
    THEN [c EXCEPT !.bitmap = @ \cup {Sub16(seqno, c.first)}]
    ELSE LET shift == Sub16(Sub16(seqno, c.first), BitmapWidth - 1)
             nfirst == Add16(c.first, shift)
         IN  [c EXCEPT !.first = nfirst,
                       !.bitmap = ShiftRight(@, shift)
                                    \cup {Sub16(seqno, nfirst)}]

\* statistics that do not take a loss back when the packet arrives late
StoreStatsNoRetract(c, seqno) ==
    IF ~c.lastValid \/ seqnoInvalid(seqno, c.last)
    THEN [c EXCEPT !.last = seqno, !.lastValid = TRUE,
                   !.expected = Add32(@, U32(1))]
    ELSE IF Sub16(c.last, seqno) >= TopBit
    THEN [c EXCEPT !.expected = Add32(@, U32(Sub16(seqno, c.last))),
                   !.lost = Add32(@, U32(Sub16(seqno, c.last) - 1)),
                   !.cycle = IF seqno < c.last THEN (@ + 1) % SeqMod ELSE @,
                   !.last = seqno]
    ELSE c

\* statistics that do not count the wraps of the sequence number
StoreStatsNoCycle(c, seqno) ==
    IF ~c.lastValid \/ seqnoInvalid(seqno, c.last)
    THEN [c EXCEPT !.last = seqno, !.lastValid = TRUE,
                   !.expected = Add32(@, U32(1))]
    ELSE IF Sub16(c.last, seqno) >= TopBit
    THEN [c EXCEPT !.expected = Add32(@, U32(Sub16(seqno, c.last))),
                   !.lost = Add32(@, U32(Sub16(seqno, c.last) - 1)),
                   !.last = seqno]
    ELSE IF c.lost # U32(0)
    THEN [c EXCEPT !.lost = Dec32(@)]
    ELSE c

\* statistics that count a packet ahead of last as one, whatever the gap
StoreStatsCountsCalls(c, seqno) ==
    IF ~c.lastValid \/ seqnoInvalid(seqno, c.last)
    THEN [c EXCEPT !.last = seqno, !.lastValid = TRUE,
                   !.expected = Add32(@, U32(1))]
    ELSE IF Sub16(c.last, seqno) >= TopBit
    THEN [c EXCEPT !.expected = Add32(@, U32(1)),
                   !.lost = Add32(@, U32(Sub16(seqno, c.last) - 1)),
                   !.cycle = IF seqno < c.last THEN (@ + 1) % SeqMod ELSE @,
                   !.last = seqno]
    ELSE IF c.lost # U32(0)
    THEN [c EXCEPT !.lost = Dec32(@)]
    ELSE c

\* statistics that take a loss back without looking whether one was counted
StoreStatsUnguarded(c, seqno) ==
    IF ~c.lastValid \/ seqnoInvalid(seqno, c.last)
    THEN [c EXCEPT !.last = seqno, !.lastValid = TRUE,
                   !.expected = Add32(@, U32(1))]
    ELSE IF Sub16(c.last, seqno) >= TopBit
    THEN [c EXCEPT !.expected = Add32(@, U32(Sub16(seqno, c.last))),
                   !.lost = Add32(@, U32(Sub16(seqno, c.last) - 1)),
                   !.cycle = IF seqno < c.last THEN (@ + 1) % SeqMod ELSE @,
                   !.last = seqno]
    ELSE [c EXCEPT !.lost = Dec32(@)]

\* Store, lines 82-99: the statistics
StoreStats(c, seqno) ==
    IF ~c.lastValid \/ seqnoInvalid(seqno, c.last)
    THEN [c EXCEPT !.last = seqno, !.lastValid = TRUE,
                   !.expected = Add32(@, U32(1))]
    ELSE IF Sub16(c.last, seqno) >= TopBit
    THEN [c EXCEPT !.expected = Add32(@, U32(Sub16(seqno, c.last))),
                   !.lost = Add32(@, U32(Sub16(seqno, c.last) - 1)),
                   !.cycle = IF seqno < c.last THEN (@ + 1) % SeqMod ELSE @,
                   !.last = seqno]
    ELSE IF c.lost # U32(0)
    THEN [c EXCEPT !.lost = Dec32(@)]
    ELSE c

\* copy(dst[:], src) on the fixed array of an entry
CopyBuf(old, src) ==
    LET n == Min(Len(src), BufSize)
    IN  [i \in 1..Max(Len(old), n) |-> IF i <= n THEN src[i] ELSE old[i]]

\* a write into the ring that lets tail run past the end
StoreRingNoWrap(c, seqno, buf) ==
    LET i == c.tail
    IN  [c EXCEPT !.entries[i + 1] =
                      [seqno |-> seqno,
                       length |-> Len(buf) % SeqMod,
                       buf |-> CopyBuf(@.buf, buf)],
                  !.tail = (i + 1) % SeqMod]

\* Store, lines 103-107: the write into the ring
StoreRing(c, seqno, buf) ==
    LET i == c.tail
    IN  [c EXCEPT !.entries[i + 1] =
                      [seqno |-> seqno,
                       length |-> Len(buf) % SeqMod,
                       buf |-> CopyBuf(@.buf, buf)],
                  !.tail = (i + 1) % (Len(c.entries) % SeqMod)]

\* entries[tail] is out of range, or the modulus uint16(len(entries)) is 0
StoreFaults(c) ==
    c.tail >= Len(c.entries) \/ Len(c.entries) % SeqMod = 0

\* copy(result[:e.length], e.buf[:]) into a result buffer of BufSize bytes:
\* the bytes copied, whose number is the value returned
Read(e) ==
    [i \in 1..Min(e.length, BufSize) |-> IF i <= Len(e.buf) THEN e.buf[i] ELSE 0]

\* ------------------------------------------------------------ lookups

\* Get: the bytes of the first entry that is not empty and holds seqno
RECURSIVE GetScan(_, _, _)
GetScan(c, seqno, i) ==
    IF i >= Len(c.entries) THEN <<>>
    ELSE IF At(c.entries, i).length = 0 \/ At(c.entries, i).seqno # seqno
    THEN GetScan(c, seqno, i + 1)
    ELSE Read(At(c.entries, i))

\* a scan that starts one slot late
GetResultFromOne(c, seqno) == GetScan(c, seqno, 1)

GetResult(c, seqno) == GetScan(c, seqno, 0)

\* GetLast: the index read
GetLastIndex(c) ==
    LET i == Sub16(c.tail, 1)
    IN  IF i >= Len(c.entries) % SeqMod THEN 0 ELSE i

GetLastFaults(c) == GetLastIndex(c) >= Len(c.entries)

GetLastResult(c) == Read(At(c.entries, GetLastIndex(c)))

\* GetAt: the guard of line 157 lets index = len(entries) through to
\* entries[index], which is out of range
GetAtMisses(c, index) == index > Len(c.entries)

GetAtFaults(c, index) == ~GetAtMisses(c, index) /\ index >= Len(c.entries)

\* a lookup that trusts the index alone
GetAtResultUnchecked(c, seqno, index) ==
    IF GetAtMisses(c, index) THEN <<>>
    ELSE Read(At(c.entries, index))

GetAtResult(c, seqno, index) ==
    IF GetAtMisses(c, index) THEN <<>>
    ELSE IF At(c.entries, index).seqno # seqno THEN <<>>
    ELSE Read(At(c.entries, index))

\* ------------------------------------------------------------ resize

\* s[lo:hi]
Slice(s, lo, hi) == SubSeq(s, lo + 1, hi)

\* copy(dst[off:], src)
CopyAt(dst, off, src) ==
    [i \in 1..Len(dst) |->
        IF i > off /\ i - off <= Len(src) THEN src[i - off] ELSE dst[i]]

\* a grow that leaves the old entries where they were
resizeNoShift(c, capacity) ==
    IF Len(c.entries) = capacity THEN c
    ELSE
      LET entries == [i \in 1..capacity |-> EmptyEntry]
          n == Len(c.entries)
      IN  IF capacity > n
          THEN [c EXCEPT !.entries = CopyAt(entries, 0, c.entries)]
          ELSE IF capacity > c.tail
          THEN [c EXCEPT !.entries =
                   CopyAt(CopyAt(entries, 0, Slice(c.entries, 0, c.tail)),
                          c.tail,
                          Slice(c.entries, c.tail + n - capacity, n))]
          ELSE [c EXCEPT !.entries =
                   CopyAt(entries, 0,
                          Slice(c.entries, c.tail - capacity, c.tail)),
                         !.tail = 0]

\* a shrink that keeps the oldest packets beyond tail, not the newest
resizeKeepsOldest(c, capacity) ==
    IF Len(c.entries) = capacity THEN c
    ELSE
      LET entries == [i \in 1..capacity |-> EmptyEntry]
          n == Len(c.entries)
      IN  IF capacity > n
          THEN [c EXCEPT !.entries =
                   CopyAt(CopyAt(entries, 0, Slice(c.entries, 0, c.tail)),
                          c.tail + capacity - n,
                          Slice(c.entries, c.tail, n))]
          ELSE IF capacity > c.tail
          THEN [c EXCEPT !.entries =
                   CopyAt(CopyAt(entries, 0, Slice(c.entries, 0, c.tail)),
                          c.tail,
                          Slice(c.entries, c.tail, capacity))]
          ELSE [c EXCEPT !.entries =
                   CopyAt(entries, 0,
                          Slice(c.entries, c.tail - capacity, c.tail)),
                         !.tail = 0]

\* a grow that shifts the whole ring, the slots below tail too
resizeShiftsAll(c, capacity) ==
    IF Len(c.entries) = capacity THEN c
    ELSE
      LET entries == [i \in 1..capacity |-> EmptyEntry]
          n == Len(c.entries)
      IN  IF capacity > n
          THEN [c EXCEPT !.entries = CopyAt(entries, capacity - n, c.entries)]
          ELSE IF capacity > c.tail
          THEN [c EXCEPT !.entries =
                   CopyAt(CopyAt(entries, 0, Slice(c.entries, 0, c.tail)),
                          c.tail,
                          Slice(c.entries, c.tail + n - capacity, n))]
          ELSE [c EXCEPT !.entries =
                   CopyAt(entries, 0,
                          Slice(c.entries, c.tail - capacity, c.tail)),
                         !.tail = 0]

resize(c, capacity) ==
    IF Len(c.entries) = capacity THEN c
    ELSE
      LET entries == [i \in 1..capacity |-> EmptyEntry]
          n == Len(c.entries)
      IN  IF capacity > n
          THEN [c EXCEPT !.entries =
                   CopyAt(CopyAt(entries, 0, Slice(c.entries, 0, c.tail)),
                          c.tail + capacity - n,
                          Slice(c.entries, c.tail, n))]
          ELSE IF capacity > c.tail
          THEN [c EXCEPT !.entries =
                   CopyAt(CopyAt(entries, 0, Slice(c.entries, 0, c.tail)),
                          c.tail,
                          Slice(c.entries, c.tail + n - capacity, n))]
          ELSE [c EXCEPT !.entries =
                   CopyAt(entries, 0,
                          Slice(c.entries, c.tail - capacity, c.tail)),
                         !.tail = 0]

\* a ResizeCond that does not look at tail
ResizeCondResizesAnyTail(c, capacity) ==
    LET current == Len(c.entries)
    IN  ~(current >= capacity \div 2 /\ current < capacity * 2)

\* resize: the copies of its three branches, each copy(entries[at:],
\* cache.entries[lo:hi])
resizeCopies(c, capacity) ==
    LET n == Len(c.entries)
    IN  IF n = capacity THEN {}
        ELSE IF capacity > n
        THEN {[lo |-> 0, hi |-> c.tail, at |-> 0],
              [lo |-> c.tail, hi |-> n, at |-> c.tail + capacity - n]}
        ELSE IF capacity > c.tail
        THEN {[lo |-> 0, hi |-> c.tail, at |-> 0],
              [lo |-> c.tail + n - capacity, hi |-> n, at |-> c.tail]}
        ELSE {[lo |-> c.tail - capacity, hi |-> c.tail, at |-> 0]}

\* a slice expression of resize is out of range, which panics
resizeFaults(c, capacity) ==
    \E x \in resizeCopies(c, capacity) :
        \/ ~(0 <= x.lo /\ x.lo <= x.hi /\ x.hi <= Len(c.entries))
        \/ ~(0 <= x.at /\ x.at <= capacity)

\* ResizeCond: whether it resizes
ResizeCondResizes(c, capacity) ==
    LET current == Len(c.entries)
    IN  /\ ~(current >= capacity \div 2 /\ current < capacity * 2)
        /\ ~(c.tail > current \div 2 /\ c.tail > capacity \div 2)

\* ------------------------------------------------------------ bitmap, stats

\* BitmapGet, lines 236-239: shift the zero bits out, counting them in first
RECURSIVE DrainLoop(_, _)
DrainLoop(bitmap, first) ==
    IF 0 \in bitmap THEN [bitmap |-> bitmap, first |-> first]
    ELSE DrainLoop(ShiftRight(bitmap, 1), Add16(first, 1))

\* a mask that is not shifted past the bit of the sequence number reported
BitmapGetResultNoShift(c) ==
    LET bitmap == (0..(DrainWidth - 1)) \ c.bitmap
    IN  IF bitmap = {} THEN <<FALSE, c.first, {}>>
        ELSE LET d == DrainLoop(bitmap, c.first)
             IN  <<TRUE, d.first, {b \in d.bitmap : b < 16}>>

\* BitmapGet: the values returned; a mask is the set of its 1 bits
BitmapGetResult(c) ==
    LET bitmap == (0..(DrainWidth - 1)) \ c.bitmap
    IN  IF bitmap = {} THEN <<FALSE, c.first, {}>>
        ELSE LET d == DrainLoop(bitmap, c.first)
             IN  <<TRUE, d.first,
                   {b \in ShiftRight(d.bitmap, 1) : b < 16}>>

\* a BitmapGet that drains the window only when it reports no loss
BitmapGetCacheKeepsLoss(c) ==
    IF (0..(DrainWidth - 1)) \ c.bitmap = {}
    THEN [c EXCEPT !.bitmap = ShiftRight(@, DrainWidth),
                   !.first = Add16(@, DrainWidth)]
    ELSE c

BitmapGetCache(c) ==
    [c EXCEPT !.bitmap = ShiftRight(@, DrainWidth),
              !.first = Add16(@, DrainWidth)]

\* GetStats: the values returned; the extended sequence number
\* uint32(cycle)<<16 | uint32(last) has cycle as its high half
GetStatsResult(c) ==
    <<c.expected, c.lost, Add32(c.totalLost, c.lost),
      [hi |-> c.cycle, lo |-> c.last]>>

\* a reset that drops the loss it clears
GetStatsCacheForgets(c, reset) ==
    IF reset
    THEN [c EXCEPT !.expected = U32(0),
                   !.lost = U32(0)]
    ELSE c

GetStatsCache(c, reset) ==
    IF reset
    THEN [c EXCEPT !.expected = U32(0),
                   !.totalLost = Add32(@, c.lost),
                   !.lost = U32(0)]
    ELSE c

\* ------------------------------------------------------------ state

VARIABLES
    cache,      \* the Cache
    panicked,   \* a call has hit a run-time panic
    ret,        \* the last call: its name, its arguments, the values returned
    history,    \* the packets stored, in order, with the index each got
                \* (the last MaxHistory of them)
    resized,    \* Resize or ResizeCond has changed the capacity
    adjusted,   \* Expect has added to expected, or GetStats has reset
    drains,     \* the number of BitmapGet calls
    mu,         \* the mutex: the caller that holds it, or Unlocked
    pc,         \* where each concurrent caller is in its call
    call,       \* the call each concurrent caller is in
    lin,        \* the cache had every call run alone, in the order of Lock
    reported    \* the sum of the lost values GetStats(true) has returned

\* the state of the concurrent callers, which the calls below, each one
\* whole call made with the mutex free, leave as it is; they keep lin equal
\* to the cache
conc == <<mu, pc, call>>

vars ==
    <<cache, panicked, ret, history, resized, adjusted, drains,
      mu, pc, call, lin, reported>>

Recent(h) == IF Len(h) > MaxHistory THEN Tail(h) ELSE h

\* the concurrent callers
Procs == {"a", "b"}
Unlocked == "nobody"

NoCall == [op |-> "none", args |-> <<>>, val |-> <<>>]

\* a caller that is in no call
Idle == [op |-> "none", args |-> <<>>, val |-> <<>>, want |-> <<>>]

Call(op, args, val) == [op |-> op, args |-> args, val |-> val]

\* ------------------------------------------------------------ operations

Store(seqno, buf) ==
    /\ ~panicked
    /\ UNCHANGED <<adjusted, drains, conc, reported>>
    /\ LET c == set(StoreStats(cache, seqno), seqno)
       IN  IF StoreFaults(c)
           THEN /\ cache' = c
                /\ panicked' = TRUE
                /\ ret' = Call("Store", <<seqno, buf>>, <<>>)
                /\ UNCHANGED <<history, resized>>
           ELSE /\ cache' = StoreRing(c, seqno, buf)
                /\ ret' = Call("Store", <<seqno, buf>>, <<c.first, c.tail>>)
                /\ history' = Recent(Append(history,
                       [seqno |-> seqno, buf |-> buf, index |-> c.tail]))
                /\ UNCHANGED <<panicked, resized>>
    /\ lin' = cache'

Expect(n) ==
    /\ ~panicked
    /\ cache' = IF n <= 0 THEN cache
                ELSE [cache EXCEPT !.expected = Add32(@, U32(n))]
    /\ ret' = Call("Expect", <<n>>, <<>>)
    /\ adjusted' = (adjusted \/ n > 0)
    /\ UNCHANGED <<panicked, history, resized, drains, conc, reported>>
    /\ lin' = cache'

Get(seqno) ==
    /\ ~panicked
    /\ ret' = Call("Get", <<seqno>>, GetResult(cache, seqno))
    /\ UNCHANGED <<cache, panicked, history, resized, adjusted, drains, conc,
                   reported>>
    /\ lin' = cache'

GetLast ==
    /\ ~panicked
    /\ IF GetLastFaults(cache)
       THEN /\ panicked' = TRUE
            /\ ret' = Call("GetLast", <<>>, <<>>)
       ELSE /\ ret' = Call("GetLast", <<>>, GetLastResult(cache))
            /\ UNCHANGED panicked
    /\ UNCHANGED <<cache, history, resized, adjusted, drains, conc, reported>>
    /\ lin' = cache'

GetAt(seqno, index) ==
    /\ ~panicked
    /\ IF GetAtFaults(cache, index)
       THEN /\ panicked' = TRUE
            /\ ret' = Call("GetAt", <<seqno, index>>, <<>>)
       ELSE /\ ret' = Call("GetAt", <<seqno, index>>,
                           GetAtResult(cache, seqno, index))
            /\ UNCHANGED panicked
    /\ UNCHANGED <<cache, history, resized, adjusted, drains, conc, reported>>
    /\ lin' = cache'

Resize(capacity) ==
    /\ ~panicked
    /\ cache' = resize(cache, capacity)
    /\ ret' = Call("Resize", <<capacity>>, <<>>)
    /\ resized' = (resized \/ capacity # Len(cache.entries))
    /\ UNCHANGED <<panicked, history, adjusted, drains, conc, reported>>
    /\ lin' = cache'

ResizeCond(capacity) ==
    /\ ~panicked
    /\ IF ResizeCondResizes(cache, capacity)
       THEN /\ cache' = resize(cache, capacity)
            /\ ret' = Call("ResizeCond", <<capacity>>, TRUE)
            /\ resized' = (resized \/ capacity # Len(cache.entries))
       ELSE /\ ret' = Call("ResizeCond", <<capacity>>, FALSE)
            /\ UNCHANGED <<cache, resized>>
    /\ UNCHANGED <<panicked, history, adjusted, drains, conc, reported>>
    /\ lin' = cache'

BitmapGet ==
    /\ ~panicked
    /\ cache' = BitmapGetCache(cache)
    /\ ret' = Call("BitmapGet", <<cache.first, cache.bitmap>>,
                   BitmapGetResult(cache))
    /\ drains' = drains + 1
    /\ UNCHANGED <<panicked, history, resized, adjusted, conc, reported>>
    /\ lin' = cache'

GetStats(reset) ==
    /\ ~panicked
    /\ cache' = GetStatsCache(cache, reset)
    /\ ret' = Call("GetStats", <<reset>>, GetStatsResult(cache))
    /\ adjusted' = (adjusted \/ reset)
    /\ reported' = IF reset THEN Add32(reported, GetStatsResult(cache)[2])
                   ELSE reported
    /\ UNCHANGED <<panicked, history, resized, drains, conc>>
    /\ lin' = cache'

\* ------------------------------------------------------------ the ring

\* The ring and its lookups: a cache of capacity 1..MaxCap, packets with a
\* few sequence numbers and payloads, resized at any time.
Capacities == 1..MaxCap
RingSeqnos == {0, 1, 2}
\* the packets stored: three sequence numbers, one of them with two payloads
Packets == {<<0, <<7>>>>, <<1, <<7>>>>, <<1, <<8, 9>>>>, <<2, <<8, 9>>>>}
\* the (seqno, index) pairs a caller holds: those Store has returned
Held == {<<history[k].seqno, history[k].index>> : k \in DOMAIN history}

\* the state that New(capacity) leaves
Fresh(capacity) ==
    /\ cache = New(capacity)
    /\ panicked = FALSE
    /\ ret = NoCall
    /\ history = <<>>
    /\ resized = FALSE
    /\ adjusted = FALSE
    /\ drains = 0
    /\ mu = Unlocked
    /\ pc = [p \in Procs |-> "idle"]
    /\ call = [p \in Procs |-> Idle]
    /\ lin = New(capacity)
    /\ reported = U32(0)

InitRing == \E capacity \in Capacities : Fresh(capacity)

NextRing ==
    \/ /\ Len(history) < MaxRingStores
       /\ \E p \in Packets : Store(p[1], p[2])
    \/ \E seqno \in RingSeqnos : Get(seqno)
    \/ \E h \in Held : GetAt(h[1], h[2])
    \/ GetLast
    \/ \E capacity \in Capacities : Resize(capacity)
    \/ \E capacity \in Capacities : ResizeCond(capacity)

SpecRing == InitRing /\ [][NextRing]_vars

\* ------------------------------------------------------------ the statistics

\* The statistics: packets in order, with a gap, reordered, far behind and
\* around the wrap of the sequence number, with Expect and GetStats.
StatsSeqnos == {0, 1, 2, 3, 300, 65535}
ExpectCounts == {0, 2}

InitStats == Fresh(1)

NextStats ==
    \/ /\ Len(history) < MaxStatsStores
       /\ \E seqno \in StatsSeqnos : Store(seqno, <<7>>)
    \/ /\ Leq32(cache.expected, U32(MaxExpected))
       /\ \E n \in ExpectCounts : Expect(n)
    \/ \E reset \in BOOLEAN : GetStats(reset)

SpecStats == InitStats /\ [][NextStats]_vars

\* ------------------------------------------------------------ the bitmap

\* The arrival bitmap: a stream of packets that starts at 0 or just below
\* the wrap, each packet 1, 3 or 5 after the one before (so 0, 2 or 4
\* packets are missing), drained by BitmapGet.
StreamStarts == {0, 65530}
StreamSteps == {1, 3, 5}

InitBitmap == Fresh(1)

NextBitmap ==
    \/ /\ ~cache.lastValid
       /\ \E seqno \in StreamStarts : Store(seqno, <<7>>)
    \/ /\ cache.lastValid
       /\ Leq32(cache.expected, U32(MaxSpan))
       /\ \E step \in StreamSteps :
             /\ Leq32(Add32(cache.lost, U32(step - 1)), U32(MaxLost))
             /\ Store(Add16(cache.last, step), <<7>>)
    \/ /\ drains < MaxDrains
       /\ BitmapGet

SpecBitmap == InitBitmap /\ [][NextBitmap]_vars

\* ------------------------------------------------------------ the mutex

\* A whole call run alone on cache c: the cache it leaves, the values it
\* returns, and whether it panics.
Run(c, op, args) ==
    CASE op = "Store" ->
           LET c1 == set(StoreStats(c, args[1]), args[1])
           IN  IF StoreFaults(c1)
               THEN [cache |-> c1, val |-> <<>>, fault |-> TRUE]
               ELSE [cache |-> StoreRing(c1, args[1], args[2]),
                     val |-> <<c1.first, c1.tail>>, fault |-> FALSE]
      [] op = "Expect" ->
           [cache |-> [c EXCEPT !.expected = Add32(@, U32(args[1]))],
            val |-> <<>>, fault |-> FALSE]
      [] op = "Get" ->
           [cache |-> c, val |-> GetResult(c, args[1]), fault |-> FALSE]
      [] op = "GetLast" ->
           IF GetLastFaults(c)
           THEN [cache |-> c, val |-> <<>>, fault |-> TRUE]
           ELSE [cache |-> c, val |-> GetLastResult(c), fault |-> FALSE]
      [] op = "GetAt" ->
           IF GetAtFaults(c, args[2])
           THEN [cache |-> c, val |-> <<>>, fault |-> TRUE]
           ELSE [cache |-> c, val |-> GetAtResult(c, args[1], args[2]),
                 fault |-> FALSE]
      [] op = "Resize" ->
           [cache |-> resize(c, args[1]), val |-> <<>>, fault |-> FALSE]
      [] op = "ResizeCond" ->
           IF ResizeCondResizes(c, args[1])
           THEN [cache |-> resize(c, args[1]), val |-> TRUE, fault |-> FALSE]
           ELSE [cache |-> c, val |-> FALSE, fault |-> FALSE]
      [] op = "BitmapGet" ->
           [cache |-> BitmapGetCache(c), val |-> BitmapGetResult(c),
            fault |-> FALSE]
      [] op = "GetStats" ->
           [cache |-> GetStatsCache(c, args[1]), val |-> GetStatsResult(c),
            fault |-> FALSE]

\* a Lock that does not wait for the mutex
CanLockAlways(m) == TRUE

\* cache.mu.Lock() returns once the mutex is free
CanLock(m) == m = Unlocked

\* Caller p enters a call: Lock, the first statement of every operation.
\* lin runs the whole call at this point; want is what it returns there.
Lock(p, op, args) ==
    /\ ~panicked
    /\ pc[p] = "idle"
    /\ CanLock(mu)
    /\ mu' = p
    /\ pc' = [pc EXCEPT ![p] = IF op = "Store" THEN "stats" ELSE "body"]
    /\ call' = [call EXCEPT ![p] =
                   [op |-> op, args |-> args, val |-> <<>>,
                    want |-> Run(lin, op, args).val]]
    /\ lin' = Run(lin, op, args).cache
    /\ UNCHANGED <<cache, panicked, ret, history, resized, adjusted, drains,
                   reported>>

\* Store, lines 82-99, under the mutex
StoreStatsStep(p) ==
    /\ ~panicked
    /\ pc[p] = "stats"
    /\ cache' = StoreStats(cache, call[p].args[1])
    /\ pc' = [pc EXCEPT ![p] = "set"]
    /\ UNCHANGED <<panicked, ret, history, resized, adjusted, drains,
                   mu, call, lin, reported>>

\* Store, line 101
StoreSetStep(p) ==
    /\ ~panicked
    /\ pc[p] = "set"
    /\ cache' = set(cache, call[p].args[1])
    /\ pc' = [pc EXCEPT ![p] = "ring"]
    /\ UNCHANGED <<panicked, ret, history, resized, adjusted, drains,
                   mu, call, lin, reported>>

\* Store, lines 103-109
StoreRingStep(p) ==
    /\ ~panicked
    /\ pc[p] = "ring"
    /\ IF StoreFaults(cache)
       THEN /\ panicked' = TRUE
            /\ UNCHANGED <<cache, history, call>>
       ELSE /\ cache' = StoreRing(cache, call[p].args[1], call[p].args[2])
            /\ call' = [call EXCEPT ![p].val = <<cache.first, cache.tail>>]
            /\ history' = Recent(Append(history,
                   [seqno |-> call[p].args[1], buf |-> call[p].args[2],
                    index |-> cache.tail]))
            /\ UNCHANGED panicked
    /\ pc' = [pc EXCEPT ![p] = "unlock"]
    /\ UNCHANGED <<ret, resized, adjusted, drains, mu, lin, reported>>

\* the body of every other operation, under the mutex
Body(p) ==
    /\ ~panicked
    /\ pc[p] = "body"
    /\ LET r == Run(cache, call[p].op, call[p].args)
       IN  /\ cache' = r.cache
           /\ panicked' = r.fault
           /\ call' = [call EXCEPT ![p].val = r.val]
           /\ resized' = (resized \/ Len(r.cache.entries) # Len(cache.entries))
           /\ reported' = IF call[p].op = "GetStats" /\ call[p].args[1]
                          THEN Add32(reported, r.val[2])
                          ELSE reported
    /\ adjusted' = (adjusted \/ call[p].op = "Expect"
                             \/ (call[p].op = "GetStats" /\ call[p].args[1]))
    /\ drains' = IF call[p].op = "BitmapGet" THEN drains + 1 ELSE drains
    /\ pc' = [pc EXCEPT ![p] = "unlock"]
    /\ UNCHANGED <<ret, history, mu, lin>>

\* the deferred cache.mu.Unlock(), which also runs when the call panics;
\* the call then returns
Unlock(p) ==
    /\ pc[p] = "unlock"
    /\ mu' = Unlocked
    /\ pc' = [pc EXCEPT ![p] = "idle"]
    /\ call' = [call EXCEPT ![p] = Idle]
    /\ UNCHANGED <<cache, panicked, ret, history, resized, adjusted, drains,
                   lin, reported>>

\* Expect(n) with n <= 0 returns at line 114, before Lock
ExpectNothing(p, n) ==
    /\ ~panicked
    /\ pc[p] = "idle"
    /\ n <= 0
    /\ call' = [call EXCEPT ![p] =
                   [op |-> "Expect", args |-> <<n>>, val |-> <<>>,
                    want |-> <<>>]]
    /\ pc' = [pc EXCEPT ![p] = "return"]
    /\ UNCHANGED <<cache, panicked, ret, history, resized, adjusted, drains,
                   mu, lin, reported>>

\* the return of line 114
ExpectReturn(p) ==
    /\ pc[p] = "return"
    /\ pc' = [pc EXCEPT ![p] = "idle"]
    /\ call' = [call EXCEPT ![p] = Idle]
    /\ UNCHANGED <<cache, panicked, ret, history, resized, adjusted, drains,
                   mu, lin, reported>>

\* Two callers that call any operation at any time: Store with sequence
\* numbers around the wrap, each stored once.
ConcSeqnos == {65535, 0, 1}

ConcCapacities == {1, 3}

InitConc == Fresh(2)

NextConc ==
    \E p \in Procs :
        \/ \E seqno \in ConcSeqnos :
              /\ \A k \in DOMAIN history : history[k].seqno # seqno
              /\ Lock(p, "Store", <<seqno, <<7>>>>)
        \/ /\ Leq32(cache.expected, U32(MaxConcExpected))
           /\ Lock(p, "Expect", <<2>>)
        \/ ExpectNothing(p, 0)
        \/ ExpectReturn(p)
        \/ Lock(p, "Get", <<0>>)
        \/ Lock(p, "GetLast", <<>>)
        \/ \E h \in Held : Lock(p, "GetAt", h)
        \/ \E capacity \in ConcCapacities : Lock(p, "Resize", <<capacity>>)
        \/ \E capacity \in ConcCapacities :
              Lock(p, "ResizeCond", <<capacity>>)
        \/ /\ drains < MaxConcDrains
           /\ Lock(p, "BitmapGet", <<>>)
        \/ \E reset \in BOOLEAN : Lock(p, "GetStats", <<reset>>)
        \/ StoreStatsStep(p)
        \/ StoreSetStep(p)
        \/ StoreRingStep(p)
        \/ Body(p)
        \/ Unlock(p)

SpecConc == InitConc /\ [][NextConc]_vars

\* ------------------------------------------------------------ resizing

\* The ring under resizing: a stream of packets with consecutive sequence
\* numbers that wrap, each with its own payload, into a cache that is
\* resized, unconditionally or by ResizeCond, at any time.
ResizeCapacities == 1..MaxResizeCap
StreamStart == 65534
NextSeqno == IF cache.lastValid THEN Add16(cache.last, 1) ELSE StreamStart
Payload(seqno) == <<seqno % 256, 7>>

InitResize == \E capacity \in ResizeCapacities : Fresh(capacity)

NextResize ==
    \/ /\ Len(history) < MaxResizeStores
       /\ Store(NextSeqno, Payload(NextSeqno))
    \/ \E capacity \in ResizeCapacities : Resize(capacity)
    \/ \E capacity \in ResizeCapacities : ResizeCond(capacity)

SpecResize == InitResize /\ [][NextResize]_vars

\* ------------------------------------------------------------ construction

\* New with capacities at both ends of its range, and Store into what it
\* returns: into a fresh cache, and into a cache of the largest capacity
\* that all but its last two slots were filled.
NewCapacities == {0, 1, 2, 3, MaxUint16, MaxUint16 + 1, MaxUint16 + 2}
NewSeqnos == {0, 1, 65535}

\* New(capacity) and then n Store(0, <<7>>) calls, for 0 < n < capacity:
\* the first sets last and first to 0 and marks bit 0, the others are
\* duplicates that change neither the statistics nor the window
Filled(capacity, n) ==
    [New(capacity) EXCEPT
        !.lastValid = TRUE,
        !.expected = U32(1),
        !.bitmap = {0},
        !.tail = n,
        !.entries = [i \in 1..capacity |->
                        IF i <= n
                        THEN [seqno |-> 0, length |-> 1, buf |-> <<7>>]
                        ELSE EmptyEntry]]

\* the last packets of those n Store calls
FilledHistory(n) ==
    [k \in 1..Min(n, MaxHistory) |->
        [seqno |-> 0, buf |-> <<7>>, index |-> n - Min(n, MaxHistory) + k - 1]]

\* the state New(capacity) returns in, the call recorded
Constructed(capacity) ==
    /\ cache = New(capacity)
    /\ panicked = FALSE
    /\ ret = Call("New", <<capacity>>, <<>>)
    /\ history = <<>>
    /\ resized = FALSE
    /\ adjusted = FALSE
    /\ drains = 0
    /\ mu = Unlocked
    /\ pc = [p \in Procs |-> "idle"]
    /\ call = [p \in Procs |-> Idle]
    /\ lin = New(capacity)
    /\ reported = U32(0)

\* the state after New(capacity) and n Store(0, <<7>>) calls
NearlyFull(capacity, n) ==
    /\ cache = Filled(capacity, n)
    /\ panicked = FALSE
    /\ ret = Call("Store", <<0, <<7>>>>, <<0, n - 1>>)
    /\ history = FilledHistory(n)
    /\ resized = FALSE
    /\ adjusted = FALSE
    /\ drains = 0
    /\ mu = Unlocked
    /\ pc = [p \in Procs |-> "idle"]
    /\ call = [p \in Procs |-> Idle]
    /\ lin = Filled(capacity, n)
    /\ reported = U32(0)

InitNew ==
    \/ \E capacity \in NewCapacities : Constructed(capacity)
    \/ NearlyFull(MaxUint16, MaxUint16 - 2)

\* Store: MaxNewStores packets into a fresh cache, and into the filled ring
\* until its tail has wrapped
NextNew ==
    /\ cache # Nil
    /\ Len(history) < MaxNewStores \/ cache.tail > MaxNewStores
    /\ \E seqno \in NewSeqnos : Store(seqno, <<7>>)

SpecNew == InitNew /\ [][NextNew]_vars

\* ------------------------------------------------------------ the window

\* The arrival window: packets at, ahead of and behind the window's first
\* (inside the window, at its last bit, just beyond it, as far ahead as a
\* sequence number can be, and 1, 256 and 257 behind), with BitmapGet
\* draining the window in between.
WindowOffsets == {0, 1, 31, 32, 32767, 65279, 65280, 65535}

InitWindow == Fresh(1)

NextWindow ==
    \/ /\ Len(history) < MaxWindowStores
       /\ \E d \in WindowOffsets : Store(Add16(cache.first, d), <<7>>)
    \/ /\ drains < MaxWindowDrains
       /\ BitmapGet

SpecWindow == InitWindow /\ [][NextWindow]_vars

\* ------------------------------------------------------------ the loss

\* The loss counter: packets at, ahead of and behind last (a duplicate, the
\* next, one skipped, as far ahead as a sequence number can be, half the
\* range away, and 1, 256 and 257 behind), with Expect and GetStats.
LossOffsets == {0, 1, 2, 32767, 32768, 65279, 65280, 65535}

InitLoss == Fresh(1)

NextLoss ==
    \/ /\ Len(history) < MaxLossStores
       /\ \E d \in LossOffsets : Store(Add16(cache.last, d), <<7>>)
    \/ /\ Leq32(cache.expected, U32(MaxLossExpected))
       /\ \E n \in ExpectCounts : Expect(n)
    \/ \E reset \in BOOLEAN : GetStats(reset)

SpecLoss == InitLoss /\ [][NextLoss]_vars

\* ------------------------------------------------------------ claims

\* the sequence numbers asked of the lookups in the properties
QuerySeqnos == RingSeqnos \cup {3}

\* the Store calls whose packets a ring of n slots, never resized, holds
LastStores(n) == {k \in DOMAIN history : k > Len(history) - n}

DistinctSeqnos ==
    \A j, k \in DOMAIN history :
        history[j].seqno = history[k].seqno => j = k

\* C1: in a cache of capacity C that is never resized, after Store calls
\* with non-empty payloads, Get(s) returns a non-zero length iff s is the
\* sequence number of one of the last C Store calls; with distinct sequence
\* numbers, Get and GetAt (at the index Store returned) return 0 for every
\* packet that is not among the last C.
C1_GetFindsLastStores ==
    (~resized /\ \A k \in DOMAIN history : Len(history[k].buf) > 0) =>
        LET C == Len(cache.entries)
        IN  /\ \A s \in QuerySeqnos :
                 Len(GetResult(cache, s)) # 0
                    <=> \E k \in LastStores(C) : history[k].seqno = s
            /\ DistinctSeqnos =>
                 \A k \in DOMAIN history \ LastStores(C) :
                    /\ Len(GetResult(cache, history[k].seqno)) = 0
                    /\ Len(GetAtResult(cache, history[k].seqno,
                                       history[k].index)) = 0

\* C1's case: capacity + 1 distinct packets stored, Get asked for the oldest
C1_Witness ==
    /\ ~resized
    /\ DistinctSeqnos
    /\ Len(history) = Len(cache.entries) + 1
    /\ ret.op = "Get"
    /\ ret.args[1] = history[1].seqno
    /\ ret.val = <<>>

\* C2: GetAt returns 0, without a run-time fault, for every index that is
\* at or beyond the current capacity.
C2_GetAtOutOfRangeMisses ==
    (ret.op = "GetAt" /\ ret.args[2] >= Len(cache.entries)) =>
        (~panicked /\ ret.val = <<>>)

\* C3: after a non-empty sequence of Store calls GetLast returns the payload
\* of the packet stored last, also when tail has just wrapped to 0.
C3_GetLastReturnsNewest ==
    (ret.op = "GetLast" /\ ~resized /\ history # <<>>) =>
        (~panicked /\ ret.val = history[Len(history)].buf)

\* a first Resize, to a larger capacity, of a cache of capacity C that
\* exactly C Store calls have filled
GrowOfFull ==
    /\ ~resized
    /\ Len(history) = Len(cache.entries)
    /\ ret'.op = "Resize"
    /\ Len(cache'.entries) > Len(cache.entries)

\* C4, as claimed: after that Resize, GetAt with the index Store returned
\* still returns the packet's payload.
C4_OriginalIndexSurvivesGrow ==
    [][GrowOfFull =>
         \A k \in DOMAIN history :
            GetAtResult(cache', history[k].seqno, history[k].index)
                = history[k].buf]_vars

\* C4, amended: after that Resize from capacity C to C', every packet is
\* still found by Get and sits C' - C slots above the index Store returned:
\* GetAt finds it there, and GetAt with the original index returns 0 for
\* every index below C' - C.
C4_GrowShiftsFullRing ==
    [][GrowOfFull =>
         LET d == Len(cache'.entries) - Len(cache.entries)
         IN  \A k \in DOMAIN history :
                /\ GetAtResult(cache', history[k].seqno, history[k].index + d)
                      = history[k].buf
                /\ Len(GetResult(cache', history[k].seqno)) # 0
                /\ history[k].index < d =>
                      GetAtResult(cache', history[k].seqno,
                                  history[k].index) = <<>>]_vars

\* C4's case: a full ring has grown, its packets above their old indices
C4_Witness ==
    /\ ret.op = "Resize"
    /\ resized
    /\ history # <<>>
    /\ cache.tail = 0
    /\ Len(cache.entries) > Len(history)
    /\ \A k \in DOMAIN history :
          /\ history[k].index = k - 1
          /\ At(cache.entries,
                history[k].index + Len(cache.entries) - Len(history)).seqno
                = history[k].seqno
    /\ GetAtResult(cache, history[1].seqno, 0) = <<>>

\* C5: whenever GetAt(s, i) returns a non-zero length, slot i holds
\* sequence number s and the bytes returned were given to a Store call with
\* sequence number s, whatever Store, Resize and ResizeCond calls came
\* before.
C5_GetAtNeverWrongData ==
    \A s \in QuerySeqnos, i \in 0..(MaxCap + 1) :
        (~GetAtFaults(cache, i) /\ Len(GetAtResult(cache, s, i)) # 0) =>
            /\ At(cache.entries, i).seqno = s
            /\ \E k \in DOMAIN history :
                  /\ history[k].seqno = s
                  /\ history[k].buf = GetAtResult(cache, s, i)

\* C5's case: after a resize a pair Store returned is stale: the packet is
\* still cached, a different packet sits at the index, and GetAt misses
C5_Witness ==
    /\ resized
    /\ ret.op = "GetAt"
    /\ ret.val = <<>>
    /\ ~panicked
    /\ ret.args[2] < Len(cache.entries)
    /\ At(cache.entries, ret.args[2]).length # 0
    /\ Len(GetResult(cache, ret.args[1])) # 0

\* the sequence numbers stored, in order
StoredSeqnos == [k \in DOMAIN history |-> history[k].seqno]

\* GetStats has just reported on a fresh cache into which 0, 1, 3 and then
\* 2 were stored, with no Expect and no reset
Stored0132 ==
    /\ ret.op = "GetStats"
    /\ ~adjusted
    /\ StoredSeqnos = <<0, 1, 3, 2>>

\* C6, as claimed: GetStats then reports expected = 3 and lost = 0.
C6_ReorderExpectedThree ==
    Stored0132 => (ret.val[1] = U32(3) /\ ret.val[2] = U32(0))

\* C6, amended: GetStats then reports expected = 4 (the four sequence
\* numbers 0..3) and lost = 0, the loss counted at the gap being taken back.
C6_ReorderExpectedFour ==
    Stored0132 => (ret.val[1] = U32(4) /\ ret.val[2] = U32(0))

\* C6's case
C6_Witness == Stored0132 /\ ret.val[3] = U32(0)

\* no caller is inside a call
AllIdle == \A p \in Procs : pc[p] = "idle"

\* the Store calls so far are all that has touched the cache
OnlyStores == ~adjusted /\ ~resized /\ drains = 0 /\ ~panicked

Inside == {"stats", "set", "ring", "body", "unlock"}

\* C8: every operation holds the one mutex for all of its reads and writes
\* of the cache and releases it on every way out, so that no caller is
\* inside a call while another's Store is partly applied, and every
\* execution leaves the cache, and returns to each caller the values, of the
\* calls run one after another in the order in which they took the mutex.
C8_MutexSerialises ==
    /\ \A p \in Procs : pc[p] \in Inside <=> mu = p
    /\ \A p, q \in Procs :
          (p # q /\ pc[p] \in {"set", "ring"}) => pc[q] \notin Inside
    /\ mu = Unlocked => cache = lin
    /\ \A p \in Procs :
          (pc[p] = "unlock" /\ ~panicked) => call[p].val = call[p].want

\* C8's case: one caller's Store has updated the statistics and not yet the
\* bitmap and the ring, after an earlier Store has returned
C8_Witness ==
    \E p \in Procs :
        /\ pc[p] = "set"
        /\ history # <<>>
        /\ cache.expected # U32(Len(history))
        /\ cache.bitmap # lin.bitmap
        /\ cache.entries # lin.entries

\* the extended sequence number GetStats reports
ExtSeqno(c) == GetStatsResult(c)[4]

\* C9, as claimed: the extended sequence number never decreases.
C9_ExtSeqnoMonotonic ==
    [][Leq32(ExtSeqno(cache), ExtSeqno(cache'))]_vars

\* C9, amended: the extended sequence number never decreases, except at a
\* Store whose sequence number is more than 256 behind last
\* (seqnoInvalid(seqno, last), which sets last back to it) and at the wrap
\* of the 16-bit cycle count itself.
C9_ExtSeqnoMonotonicUnlessReset ==
    [][\/ /\ ret'.op = "Store"
          /\ cache.lastValid
          /\ seqnoInvalid(ret'.args[1], cache.last)
       \/ cache.cycle = MaxUint16
       \/ Leq32(ExtSeqno(cache), ExtSeqno(cache'))]_vars

\* C9's case: the sequence number has wrapped and GetStats reports a cycle
C9_Witness ==
    /\ ret.op = "GetStats"
    /\ ret.val[4].hi = 1
    /\ ret.val[4].lo < 4
    /\ \E k \in DOMAIN history : history[k].seqno = 65535

\* the offsets BitmapGet drains
Drained == 0..(DrainWidth - 1)

\* C10: with f the window's first and bitmap its bits before the call,
\* BitmapGet returns (false, f, 0) iff the bits of all 17 drained offsets
\* are set; otherwise it returns true, f + k for the lowest offset k whose
\* bit is clear, and the mask whose bit j is set iff offset k + 1 + j is at
\* most 16 and its bit is clear.
C10_BitmapGetReportsLoss ==
    ret.op = "BitmapGet" =>
        LET f == ret.args[1]
            bitmap == ret.args[2]
            clear == Drained \ bitmap
        IN  /\ (ret.val = <<FALSE, f, {}>>) <=> (clear = {})
            /\ clear # {} =>
                 LET k == CHOOSE o \in clear : \A x \in clear : o <= x
                 IN  ret.val =
                        <<TRUE, (f + k) % SeqMod,
                          {j \in 0..15 : k + 1 + j \in clear}>>

\* C10's case: only first and first + 5 are marked; BitmapGet reports
\* first + 1 and a mask with bit 3 clear and bits 0..14 otherwise set
C10_Witness ==
    /\ ret.op = "BitmapGet"
    /\ ret.args[2] = {0, 5}
    /\ ret.val = <<TRUE, (ret.args[1] + 1) % SeqMod, (0..14) \ {3}>>

\* a BitmapGet step
BitmapGetStep == drains' = drains + 1

\* the first BitmapGet of a cache into which exactly 17 contiguous sequence
\* numbers were stored, in order: expected counts the span from the first
\* packet to last, and no sequence number was skipped
AfterSeventeen ==
    /\ drains = 0
    /\ cache.lastValid
    /\ ~adjusted
    /\ cache.expected = U32(DrainWidth)
    /\ cache.lost = U32(0)

\* C11: after 17 contiguous sequence numbers f, f + 1, ..., f + 16 were
\* stored into a fresh cache, BitmapGet returns (false, f, 0); and every
\* BitmapGet, whatever it returns, adds 17 to first (mod 65536) and shifts
\* the bitmap right by 17.
C11_BitmapGetDrainsSeventeen ==
    [][BitmapGetStep =>
         /\ cache'.first = (cache.first + 17) % SeqMod
         /\ cache'.bitmap = {b - 17 : b \in {x \in cache.bitmap : x >= 17}}
         /\ AfterSeventeen =>
               ret'.val = <<FALSE, Sub16(cache.last, 16), {}>>]_vars

\* C11's case: 65530, ..., 65535, 0, ..., 10 were stored, BitmapGet has
\* returned (false, 65530, 0) and left an empty window that starts at 11
C11_Witness ==
    /\ ret.op = "BitmapGet"
    /\ drains = 1
    /\ cache.expected = U32(DrainWidth)
    /\ cache.lost = U32(0)
    /\ cache.last = 10
    /\ ret.val = <<FALSE, 65530, {}>>
    /\ cache.first = 11
    /\ cache.bitmap = {}

\* C12: ResizeCond(capacity) returns false and leaves the capacity, tail and
\* the entries as they are whenever the current capacity lies in
\* [capacity/2, capacity*2) (integer division), and whenever tail is above
\* both currentCapacity/2 and capacity/2; in every other case it does what
\* Resize(capacity) does and returns true.
C12_ResizeCondGate ==
    [][ret'.op = "ResizeCond" =>
         LET capacity == ret'.args[1]
             current == Len(cache.entries)
             inRange == capacity \div 2 <= current /\ current < capacity * 2
             badTime == /\ cache.tail > current \div 2
                        /\ cache.tail > capacity \div 2
         IN  IF inRange \/ badTime
             THEN /\ ret'.val = FALSE
                  /\ cache' = cache
             ELSE /\ ret'.val = TRUE
                  /\ Len(cache'.entries) = capacity
                  /\ cache' = resize(cache, capacity)]_vars

\* C12's case: ResizeCond has refused to shrink a ring to less than half
\* its capacity because tail is in its upper half
C12_Witness ==
    /\ ret.op = "ResizeCond"
    /\ ret.val = FALSE
    /\ Len(cache.entries) >= ret.args[1] * 2
    /\ cache.tail > Len(cache.entries) \div 2
    /\ cache.tail > ret.args[1] \div 2

\* C13: the cumulative loss (third value) each GetStats(true) returns is the
\* sum (mod 2^32) of the lost values (second value) that all GetStats(true)
\* calls so far, this one included, have returned; and a GetStats(false)
\* right after a GetStats(true) returns expected = 0, lost = 0 and the same
\* cumulative loss and extended sequence number.
C13_CumulativeLossSums ==
    [][/\ (ret'.op = "GetStats" /\ ret'.args[1]) => ret'.val[3] = reported'
       /\ (/\ ret.op = "GetStats" /\ ret.args[1]
           /\ ret'.op = "GetStats" /\ ~ret'.args[1]) =>
             ret'.val = <<U32(0), U32(0), ret.val[3], ret.val[4]>>]_vars

\* C13's case: a GetStats(true) reports a loss after an earlier
\* GetStats(true) has reported one too
C13_Witness ==
    /\ ret.op = "GetStats"
    /\ ret.args[1]
    /\ ret.val[2] # U32(0)
    /\ ret.val[3] # ret.val[2]
    /\ ret.val[3] = reported

\* C14, as claimed: New returns a cache for every capacity C with
\* 1 <= C <= 65536 and fails, returning no cache, only when the capacity
\* exceeds 65536; and Store never faults on a cache it has returned.
C14_NewAcceptsUpTo65536 ==
    /\ (ret.op = "New" /\ ret.args[1] >= 1) =>
          (cache = Nil <=> ret.args[1] > MaxUint16 + 1)
    /\ (cache # Nil /\ Len(cache.entries) >= 1) => ~panicked

\* the packets stored so far are n copies of (0, <<7>>), fewer than the ring
\* has slots and than history keeps
OnlyZeroStored ==
    /\ cache # Nil
    /\ history # <<>>
    /\ Len(history) < MaxHistory
    /\ Len(history) < Len(cache.entries)
    /\ \A k \in DOMAIN history : history[k].seqno = 0

\* C14, amended: New returns a cache for every capacity C with
\* 1 <= C <= 65535 and fails, returning no cache, when the capacity exceeds
\* 65535, so that New(65536) fails; Store never faults on a cache New has
\* returned for such a C, also when tail wraps at the end of the largest
\* ring; New(0) returns a cache too, and every Store into it faults.  (The
\* last conjunct: the nearly full ring is the one the Store calls leave.)
C14_NewAcceptsUpTo65535 ==
    /\ (ret.op = "New" /\ ret.args[1] >= 1) =>
          /\ cache = Nil <=> ret.args[1] > MaxUint16
          /\ cache # Nil => Len(cache.entries) = ret.args[1]
    /\ (cache # Nil /\ Len(cache.entries) >= 1) =>
          /\ ~panicked
          /\ cache.tail < Len(cache.entries)
    /\ (cache # Nil /\ Len(cache.entries) = 0 /\ ret.op = "Store") => panicked
    /\ OnlyZeroStored =>
          /\ cache = Filled(Len(cache.entries), Len(history))
          /\ history = FilledHistory(Len(history))

\* C14's case: New(65536) has returned no cache
C14_Witness ==
    /\ ret.op = "New"
    /\ ret.args[1] = MaxUint16 + 1
    /\ cache = Nil

\* first has stayed or moved forward, by less than half the range
FirstAdvances == Sub16(cache'.first, cache.first) < TopBit

\* a Store of sequence number s that is 1..256 behind first
StoreBehindFirst ==
    /\ ret'.op = "Store"
    /\ Sub16(cache.first, ret'.args[1]) \in 1..Reorder

\* C15, as claimed: across Store and BitmapGet calls first only moves
\* forward (mod 65536, by less than half the range) or stays, except when
\* Store gets a sequence number more than 256 behind first
\* (seqnoInvalid(seqno, first)); a Store of a sequence number at most 256
\* behind first never moves first backward, also after BitmapGet has
\* drained the window.  (Taken from the first Store on, which is what
\* gives first a meaning.)
C15_FirstOnlyAdvances ==
    [][cache.lastValid =>
         /\ \/ FirstAdvances
            \/ ret'.op = "Store" /\ seqnoInvalid(ret'.args[1], cache.first)
         /\ StoreBehindFirst => cache'.first = cache.first]_vars

\* C15, amended: first only moves forward (by less than half the range) or
\* stays, except when Store resets the window to its sequence number: on
\* seqnoInvalid(seqno, first), and whenever the window is empty (bitmap = 0:
\* before the first Store and after BitmapGet has shifted out every marked
\* bit).  A Store of a sequence number at most 256 behind first leaves first
\* alone when the window is not empty and sets first back to the sequence
\* number when it is.
C15_FirstAdvancesUnlessReset ==
    [][/\ \/ FirstAdvances
          \/ /\ ret'.op = "Store"
             /\ cache.bitmap = {} \/ seqnoInvalid(ret'.args[1], cache.first)
             /\ cache'.first = ret'.args[1]
       /\ StoreBehindFirst =>
             cache'.first = IF cache.bitmap = {} THEN ret'.args[1]
                            ELSE cache.first]_vars

\* C15's case: 0 was stored and BitmapGet has drained the window, which
\* left first at 17; the Store of 16 has set first back to 16
C15_Witness ==
    /\ ret.op = "Store"
    /\ drains = 1
    /\ StoredSeqnos = <<0, 16>>
    /\ cache.first = 16
    /\ cache.bitmap = {0}

\* C18: after Store(s) has returned (f, i), either s is marked in the
\* window (0 <= s - f < 32 mod 65536 and bit s - f of the bitmap is set, s
\* being at bit 31 when the window had to slide and at bit 0 when it was
\* reset), or the window was not empty and s was 1..256 behind its first,
\* and then that Store has left first and the bitmap as they were.
C18_StoreMarksOrIgnores ==
    [][(ret'.op = "Store" /\ ~panicked') =>
         LET s == ret'.args[1]
             f == ret'.val[1]
             reset == cache.bitmap = {} \/ seqnoInvalid(s, cache.first)
             slid == ~reset /\ Sub16(s, cache.first) \in 32..(TopBit - 1)
         IN  \/ /\ f = cache'.first
                /\ Sub16(s, f) < 32
                /\ Sub16(s, f) \in cache'.bitmap
                /\ slid => Sub16(s, f) = 31
                /\ reset => (Sub16(s, f) = 0 /\ cache'.bitmap = {0})
             \/ /\ cache.bitmap # {}
                /\ Sub16(cache.first, s) \in 1..256
                /\ f = cache.first
                /\ cache'.first = cache.first
                /\ cache'.bitmap = cache.bitmap]_vars

\* C18's case: the window has slid to put the sequence number at bit 31,
\* keeping the marks of two earlier packets
C18_Witness ==
    /\ ret.op = "Store"
    /\ drains = 0
    /\ StoredSeqnos = <<0, 31, 32>>
    /\ ret.val[1] = 1
    /\ cache.bitmap = {30, 31}

\* C19: the loss counter never underflows: in every state that Store,
\* Expect and GetStats reach, lost <= expected; a late or duplicate Store
\* (at most 256 behind last, or last itself) that finds lost = 0 leaves it
\* at 0, and otherwise takes 1 off; a Store that re-anchors leaves lost as
\* it is; and a forward advance adds gap - 1, with 1 <= gap <= 0x7FFF.
C19_LostNeverUnderflows ==
    [][/\ Leq32(cache'.lost, cache'.expected)
       /\ (ret'.op = "Store" /\ cache.lastValid) =>
            LET s == ret'.args[1]
                gap == Sub16(s, cache.last)
            IN  IF seqnoInvalid(s, cache.last)
                THEN cache'.lost = cache.lost
                ELSE IF Sub16(cache.last, s) \in 0..Reorder
                THEN cache'.lost = IF cache.lost = U32(0) THEN U32(0)
                                   ELSE Dec32(cache.lost)
                ELSE /\ gap \in 1..(TopBit - 1)
                     /\ cache'.lost = Add32(cache.lost, U32(gap - 1))]_vars

\* C19's case: 0, 1 and then 0 again were stored; the late packet has found
\* lost at 0 and left it there
C19_Witness ==
    /\ ret.op = "Store"
    /\ ~adjusted
    /\ StoredSeqnos = <<0, 1, 0>>
    /\ cache.lost = U32(0)
    /\ cache.expected = U32(2)

\* the slots that hold a packet
NonEmpty(c) ==
    {i \in 0..(Len(c.entries) - 1) : At(c.entries, i).length # 0}

\* the number of packets cached
Cached(c) == Cardinality(NonEmpty(c))

\* the k packets stored last
Newest(h, k) == {j \in DOMAIN h : j > Len(h) - k}

\* slot i holds the j-th packet stored
HoldsPacket(c, i, h, j) ==
    /\ At(c.entries, i).seqno = h[j].seqno
    /\ Read(At(c.entries, i)) = h[j].buf

\* a step that resizes: Resize, or a ResizeCond that returns true
ResizeStep ==
    \/ ret'.op = "Resize"
    \/ ret'.op = "ResizeCond" /\ ret'.val = TRUE

\* C16: eviction is first in, first out across resizes: after any Store
\* (of non-empty payloads) and Resize calls the non-empty slots hold exactly
\* the k packets stored last, for some k; a Resize(capacity) keeps the
\* min(capacity, number cached) packets stored last; and the next Store
\* overwrites an empty slot or the oldest packet kept.
C16_EvictionIsFifo ==
    [][LET k == Cached(cache')
       IN  /\ k <= Len(history')
           /\ \A i \in NonEmpty(cache') :
                 \E j \in Newest(history', k) :
                    HoldsPacket(cache', i, history', j)
           /\ \A j \in Newest(history', k) :
                 \E i \in NonEmpty(cache') :
                    HoldsPacket(cache', i, history', j)
           /\ ResizeStep => k = Min(ret'.args[1], Cached(cache))
           /\ cache'.tail < Len(cache'.entries)
           /\ \/ cache'.tail \notin NonEmpty(cache')
              \/ HoldsPacket(cache', cache'.tail, history',
                             Len(history') - k + 1)]_vars

\* C16's case: a wrapped ring that held the last four of 5 packets, with
\* tail at 1, has been shrunk to 2 slots, which has kept the last two
C16_Witness ==
    /\ ret.op = "Resize"
    /\ ret.args = <<2>>
    /\ Len(history) = 5
    /\ cache.tail = 1
    /\ HoldsPacket(cache, 0, history, 5)
    /\ HoldsPacket(cache, 1, history, 4)

\* C17: a Resize(capacity) with capacity > tail (a grow, or a shrink that
\* stays above tail) leaves tail as it is and every slot below tail with
\* the sequence number and payload it had, so that GetAt(seqno, index) with
\* index < tail returns what it returned before; with capacity <= tail, and
\* only then, tail is set to 0.
C17_SlotsBelowTailSurvive ==
    [][ResizeStep =>
         IF ret'.args[1] > cache.tail
         THEN /\ cache'.tail = cache.tail
              /\ \A i \in 0..(cache.tail - 1) :
                    /\ At(cache'.entries, i) = At(cache.entries, i)
                    /\ \A k \in DOMAIN history :
                          GetAtResult(cache', history[k].seqno, i)
                             = GetAtResult(cache, history[k].seqno, i)
         ELSE cache'.tail = 0 /\ cache.tail > 0]_vars

\* C17's case: a wrapped ring of 3 slots with tail at 1 has grown to 6: the
\* newest packet is still in slot 0, the older two have moved to the end
C17_Witness ==
    /\ ret.op = "Resize"
    /\ ret.args = <<6>>
    /\ Len(history) = 4
    /\ cache.tail = 1
    /\ HoldsPacket(cache, 0, history, 4)
    /\ GetAtResult(cache, history[4].seqno, history[4].index) = history[4].buf
    /\ NonEmpty(cache) = {0, 4, 5}
    /\ HoldsPacket(cache, 5, history, 3)

\* C20: in every state that New, Store, Resize and ResizeCond reach,
\* 0 <= tail < capacity, so that Store writes inside the ring (and never
\* faults); and whatever the capacity asked for, each copy of each branch
\* of resize reads indices inside the old ring only and writes indices
\* inside the new ring only.
C20_TailAndCopiesInRange ==
    /\ 0 <= cache.tail
    /\ cache.tail < Len(cache.entries)
    /\ ~StoreFaults(cache)
    /\ ~panicked
    /\ \A capacity \in ResizeCapacities :
          /\ ~resizeFaults(cache, capacity)
          /\ \A x \in resizeCopies(cache, capacity) :
                /\ 0 <= x.lo /\ x.lo <= x.hi /\ x.hi <= Len(cache.entries)
                /\ 0 <= x.at /\ x.at + (x.hi - x.lo) <= capacity

\* C20's case: a ring with tail at 3 has been shrunk to 2 slots, at or
\* below its tail, which has set tail to 0
C20_Witness ==
    /\ ret.op = "Resize"
    /\ ret.args = <<2>>
    /\ Len(history) = 3
    /\ resized
    /\ cache.tail = 0
    /\ HoldsPacket(cache, 0, history, 2)
    /\ HoldsPacket(cache, 1, history, 3)

====
